---- MODULE Spec2Model ----
(***************************************************************************)
(* State-machine model of the user-management view                         *)
(* (src/webportal/src/app/user/fabric/userView/index.jsx, UserView).       *)
(*                                                                         *)
(* A state of the model is a committed render of UserView: the values of   *)
(* its useState cells, together with what lives outside React (the         *)
(* persisted filter store, the debounce timer, requests in flight, the     *)
(* promises behind the message box).  A handler that calls a setter is one *)
(* action together with the re-render the setter causes.  The passive      *)
(* effects (useEffect) of a commit run after it, in one flush, and before  *)
(* any later handler: they are the action RunEffects, and every other      *)
(* action waits for pendingEffects = {}.                                   *)
(*                                                                         *)
(* The group lookup of the same file (initConfig, getUserGroupList) is a   *)
(* process of its own: a state is a call suspended at its await, or ended. *)
(* Two calls for different users are followed side by side against the     *)
(* same answers of the directory.                                          *)
(***************************************************************************)
EXTENDS Integers, Sequences, FiniteSets, TLC

VARIABLES
    loading,          \* useState cell, line 45
    messageBox,       \* useState cell, line 53: text, confirm, resolve
    allUsers,         \* useState cell, line 72
    filter,           \* useState cell, line 98
    filteredUsers,    \* useState cell, line 101 (Null until first computed)
    pagination,       \* useState cell, line 109
    selectedUsers,    \* useState cell, line 114
    allSelected,      \* useState cell, line 115
    ordering,         \* useState cell, line 124
    store,            \* the persisted filter store read by load, written by save
    storeReads,       \* how many times Filter.load has read the store (saturating)
    pendingEffects,   \* effects of the last commit that have not run yet
    timers,           \* pending timers of debounced applyFilter instances
    renders,          \* how many times UserView has rendered (saturating)
    fetches,          \* getAllUsersRequest calls in flight
    location,         \* window.location.href
    batch,            \* the removeUsers call being followed
    h,                \* history of the run, read by the properties only
    lookup,           \* the getUserGroupList calls being followed, lines 276-309
    directory         \* the directory service: what it has answered so far

vars == <<loading, messageBox, allUsers, filter, filteredUsers, pagination,
          selectedUsers, allSelected, ordering, store, storeReads,
          pendingEffects, timers, renders, fetches, location, batch, h,
          lookup, directory>>

\* the state of UserView
viewVars == <<loading, messageBox, allUsers, filter, filteredUsers, pagination,
              selectedUsers, allSelected, ordering, store, storeReads,
              pendingEffects, timers, renders, fetches, location, batch, h>>

\* the state of the group lookup
groupVars == <<lookup, directory>>

---------------------------------------------------------------------------
(* Bounds of the model *)

NumUsers == 3
PageSize == 1
MaxPage == 2
MaxFetches == 1
RenderCap == 2

Users == 1..NumUsers

Min(a, b) == IF a < b THEN a ELSE b

Range(s) == {s[i] : i \in 1..Len(s)}

\* the ascending list of the users in S
RECURSIVE ListOf(_)
ListOf(S) ==
    IF S = {} THEN <<>>
    ELSE LET m == CHOOSE x \in S : \A y \in S : x <= y
         IN <<m>> \o ListOf(S \ {m})

---------------------------------------------------------------------------
(* User records, as the user-list source returns them.  A user is named by *)
(* its index in the roster; its attributes are fixed.                      *)

\* username, as character codes: "c1", "B2", "a3", "c4", ...
NameOf(u) == << (IF u = 2 THEN 66 ELSE 97 + ((2 * u) % 3)), 48 + u >>

IsAdmin(u) == u % 2 = 1

VirtualClustersOf(u) == IF u % 3 = 0 THEN {"default", "vc1"} ELSE {"default"}

\* the lists getAllUsersRequest may resolve with
UserLists == {<<>>, ListOf(Users), ListOf(Users \ {1})}

\* the selections the table may hand to setSelectedUsers
SelectionChoices == {<<>>, <<1>>, ListOf(Users)}

---------------------------------------------------------------------------
(* Filter (./Filter)                                                       *)

ToLower(c) == IF c \in 65..90 THEN c + 32 ELSE c

LowerCase(s) == [i \in 1..Len(s) |-> ToLower(s[i])]

\* substring containment
Includes(s, k) ==
    \E i \in 0..(Len(s) - Len(k)) : \A j \in 1..Len(k) : s[i + j] = k[j]

EmptyFilter == [keyword |-> <<>>, admin |-> "any", virtualCluster |-> ""]

FilterChoices ==
    { EmptyFilter,
      [keyword |-> <<>>,   admin |-> "true", virtualCluster |-> ""],
      [keyword |-> <<98>>, admin |-> "any",  virtualCluster |-> ""],
      [keyword |-> <<>>,   admin |-> "any",  virtualCluster |-> "vc1"] }

FilterMatches(f, u) ==
    /\ Includes(LowerCase(NameOf(u)), LowerCase(f.keyword))
    /\ f.admin = "any" \/ (f.admin = "true") = IsAdmin(u)
    /\ f.virtualCluster = "" \/ f.virtualCluster \in VirtualClustersOf(u)

FilterApply(f, users) == SelectSeq(users, LAMBDA u : FilterMatches(f, u))

\* the store holds one serialised value per field, or nothing
Absent == "<absent>"

FilterSave(f) ==
    [keyword |-> f.keyword, admin |-> f.admin, virtualCluster |-> f.virtualCluster]

FilterLoad(s) ==
    [keyword |-> s.keyword,
     admin |-> IF s.admin \in {"any", "true", "false"} THEN s.admin ELSE "any",
     virtualCluster |-> IF s.virtualCluster = Absent THEN "" ELSE s.virtualCluster]

InitialStores ==
    { FilterSave([keyword |-> <<>>, admin |-> "true", virtualCluster |-> ""]),
      [keyword |-> <<>>, admin |-> "maybe", virtualCluster |-> Absent] }

---------------------------------------------------------------------------
(* Ordering (./Ordering)                                                   *)

RECURSIVE SeqLess(_, _)
SeqLess(a, b) ==
    IF b = <<>> THEN FALSE
    ELSE IF a = <<>> THEN TRUE
    ELSE IF a[1] # b[1] THEN a[1] < b[1]
    ELSE SeqLess(Tail(a), Tail(b))

NoOrdering == [field |-> "none", descending |-> FALSE]

OrderingChoices ==
    { NoOrdering,
      [field |-> "username", descending |-> FALSE],
      [field |-> "admin", descending |-> TRUE] }

\* a < b under the comparator of o
OrderingBefore(o, a, b) ==
    LET less(x, y) ==
            IF o.field = "username" THEN SeqLess(NameOf(x), NameOf(y))
            ELSE (~IsAdmin(x)) /\ IsAdmin(y)
    IN IF o.descending THEN less(b, a) ELSE less(a, b)

\* x put into the sorted list s, behind the elements it does not precede
RECURSIVE OrderingInsert(_, _, _)
OrderingInsert(o, s, x) ==
    IF s = <<>> THEN <<x>>
    ELSE IF OrderingBefore(o, x, s[1]) THEN <<x>> \o s
    ELSE <<s[1]>> \o OrderingInsert(o, Tail(s), x)

RECURSIVE OrderingSort(_, _, _)
OrderingSort(o, done, rest) ==
    IF rest = <<>> THEN done
    ELSE OrderingSort(o, OrderingInsert(o, done, rest[1]), Tail(rest))

OrderingApply(o, users) ==
    IF o.field = "none" THEN users ELSE OrderingSort(o, <<>>, users)

---------------------------------------------------------------------------
(* Pagination (./Pagination)                                               *)

NewPagination == [itemsPerPage |-> PageSize, pageIndex |-> 0]

ItemsPerPageChoices == {PageSize, 2 * PageSize}

PaginationApply(p, users) ==
    SubSeq(users, p.pageIndex * p.itemsPerPage + 1,
           Min(Len(users), (p.pageIndex + 1) * p.itemsPerPage))

---------------------------------------------------------------------------
(* Values                                                                  *)

\* filteredUsers before the first recomputation (null, line 101)
Null == << -1 >>

OrEmpty(list) == IF list = Null THEN <<>> ELSE list

DebounceWait == 200
SummaryDelay == 100

NoMessage == [text |-> <<>>, confirm |-> FALSE, resolve |-> "none"]

NotLoading == [show |-> FALSE, text |-> ""]

NoBatch ==
    [phase |-> "idle", selected |-> <<>>, requests |-> <<>>, results |-> <<>>,
     message |-> <<>>, timer |-> -1, refreshes |-> 0]

Alive == location = "page"

\* nothing of the last commit is left to run: handlers may run
Idle == Alive /\ pendingEffects = {}

---------------------------------------------------------------------------
(* Rendering and effects                                                   *)

\* UserView runs again; its useMemo has no dependency list, so the factory
\* (new Filter(), filter.load()) runs in every render
Render ==
    /\ renders' = Min(renders + 1, RenderCap)
    /\ storeReads' = Min(storeReads + 1, RenderCap)

NoRender == UNCHANGED <<renders, storeReads>>

\* the save effect with an empty dependency list: it runs at mount only
EffectsOfFilterWithoutSave == {"applyFilter"}

\* effects whose dependency list holds the given state
EffectsOfMount == {"refreshAllUsers", "save", "applyFilter", "resetPage"}

\* the applyFilter effect with the dependency list [applyFilter, filter]
EffectsWithoutAllUsers == {}

EffectsOfAllUsers == {"applyFilter"}
EffectsOfFilter == {"save", "applyFilter"}
EffectsOfFilteredUsers == {"resetPage"}

\* a debounced function made anew by every render and called by it
applyFilterOfRender(renderNo) == renderNo

\* the debounced function a render calls: the one the ref has held since
\* the first render
applyFilterRef(renderNo) == 1

\* a call of the debounced function inst: (re)starts its timer, keeps the
\* arguments of this call
DebouncedCall(ts, inst, users, f) ==
    {t \in ts : t.inst # inst}
        \cup {[inst |-> inst, allUsers |-> users, filter |-> f,
               remaining |-> DebounceWait]}

\* "select all" resolved against the unfiltered user list
getSelectedUsersOfAllUsers ==
    IF allSelected
    THEN PaginationApply(pagination, OrderingApply(ordering, allUsers))
    ELSE selectedUsers

\* "select all" resolved once, when the flag is set, and kept
getSelectedUsersCached ==
    IF allSelected THEN h.viewAtSelectAll ELSE selectedUsers

\* the explicit selection narrowed to the users still in the filtered list
getSelectedUsersStillListed ==
    IF allSelected
    THEN PaginationApply(pagination, OrderingApply(ordering, OrEmpty(filteredUsers)))
    ELSE SelectSeq(selectedUsers, LAMBDA u : u \in Range(OrEmpty(filteredUsers)))

\* getSelectedUsers, lines 116-122
getSelectedUsers ==
    IF allSelected
    THEN PaginationApply(pagination, OrderingApply(ordering, OrEmpty(filteredUsers)))
    ELSE selectedUsers

\* a message box that resolves the promise of the message it replaces, as
\* if that message had been dismissed without a value
ResolvedOnReplace(b) ==
    IF messageBox.resolve = "removeConfirm" THEN [NoBatch EXCEPT !.phase = "declined"]
    ELSE IF messageBox.resolve = "removeSummary"
         THEN [b EXCEPT !.phase = "refreshed", !.refreshes = @ + 1]
    ELSE b

\* showMessageBox / showMessageBoxWithConfirm replace the one message box;
\* the resolve function of a message still displayed is dropped with it
Superseded(b) ==
    IF messageBox.resolve = "removeConfirm" THEN [b EXCEPT !.phase = "confirmDropped"]
    ELSE IF messageBox.resolve = "removeSummary" THEN [b EXCEPT !.phase = "summaryDropped"]
    ELSE b

---------------------------------------------------------------------------
(* Group lookup, lines 267-311                                             *)

\* pages the directory may serve to one lookup before the model stops
\* following it (the loop of lines 281-294 has no such limit)
MaxPages == 3

\* two calls of getUserGroupList, followed side by side
Callers == 1..2

Usernames == {"alice", "bob"}

GraphUrls == {"https://graph.example/"}

AccessTokens == {"tokenA", "tokenB"}

\* group records of a page: the displayName property holds a name, holds
\* the empty string, or is missing
NamedGroup(name) == [displayName |-> <<name>>]
EmptyNamedGroup == [displayName |-> <<"">>]
UnnamedGroup == [displayName |-> <<>>]

\* response['data']['value'] of a page
PageValues ==
    { <<NamedGroup("admins")>>,
      <<UnnamedGroup, NamedGroup("users")>>,
      <<NamedGroup("users"), EmptyNamedGroup, NamedGroup("admins")>> }

\* absolute URLs a page may give as '@odata.nextLink'
NextLinks == { <<"https://graph.example/", "v1.0/me/memberOf?skiptoken=1">>,
               <<"https://graph.example/", "v1.0/me/memberOf?skiptoken=2">> }

\* response['data']: nextLinks is empty when the '@odata.nextLink' key is
\* missing, and holds its value otherwise
Pages ==
    { [value |-> v, nextLinks |-> n] :
         v \in PageValues, n \in {<<>>} \cup {<<l>> : l \in NextLinks} }

\* values axios.get may reject with
FetchErrors == {"ETIMEDOUT", "401 Unauthorized"}

\* initConfig, lines 269-274
initConfig(msGraphUrl, accessToken) ==
    [msGraphAPI |-> <<msGraphUrl, "v1.0/me/memberOf">>,
     Authorization |-> <<"Bearer ", accessToken>>]

NoConfig == [msGraphAPI |-> <<>>, Authorization |-> <<>>]

\* the request of axios.get(requestUrl, {headers}), lines 282-287
GetRequest(requestUrl, config) ==
    [url |-> requestUrl,
     headers |-> [Accept |-> "application/json",
                  Authorization |-> config.Authorization]]

\* a lookup that addresses the directory entry of the user it is given
UrlOfUsername(username, config) ==
    <<config.msGraphAPI[1], "v1.0/users/", username, "/memberOf">>

\* let requestUrl = config.msGraphAPI, line 279
FirstRequestUrl(username, config) == config.msGraphAPI

\* a loop that gives up following the links after two pages
ContinueLoopUpToTwoPages(l, data) ==
    data.nextLinks # <<>> /\ Len(l.responseData) < 2

\* '@odata.nextLink' in response['data'], line 289
ContinueLoop(l, data) == data.nextLinks # <<>>

\* a loop that asks for the same URL again
SameRequestUrl(requestUrl, data) == requestUrl

\* requestUrl = response['data']['@odata.nextLink'], line 290
NextRequestUrl(requestUrl, data) == data.nextLinks[1]

\* a loop that keeps the page it fetched last only
KeepLast(responseData, value) == <<value>>

\* responseData.push(response['data']['value']), line 288
Push(responseData, value) == Append(responseData, value)

\* if (groupItem.displayName), line 300: the property is there and is not
\* the empty string
HasDisplayName(groupItem) ==
    groupItem.displayName # <<>> /\ groupItem.displayName[1] # ""

\* the inner loop, lines 299-303
RECURSIVE PushDisplayNames(_, _)
PushDisplayNames(groupList, dataBlock) ==
    IF dataBlock = <<>> THEN groupList
    ELSE PushDisplayNames(
             IF HasDisplayName(Head(dataBlock))
             THEN Append(groupList, Head(dataBlock).displayName[1])
             ELSE groupList,
             Tail(dataBlock))

\* the outer loop, lines 295-305
RECURSIVE GroupListOf(_, _)
GroupListOf(groupList, responseData) ==
    IF responseData = <<>> THEN groupList
    ELSE GroupListOf(PushDisplayNames(groupList, Head(responseData)),
                     Tail(responseData))

IdleLookup ==
    [pc |-> "idle", username |-> "", config |-> NoConfig, requestUrl |-> <<>>,
     responseData |-> <<>>, inFlight |-> 0, requests |-> <<>>,
     groupList |-> <<>>, error |-> "none"]

NoDirectory == [responses |-> <<>>, failure |-> "none"]

\* the call up to its first await, lines 277-287
StartLookup(username, config) ==
    LET requestUrl == FirstRequestUrl(username, config)
    IN [IdleLookup EXCEPT !.pc = "awaiting", !.username = username,
                          !.config = config, !.requestUrl = requestUrl,
                          !.inFlight = 1,
                          !.requests = <<GetRequest(requestUrl, config)>>]

\* a handler that gives the caller what was gathered before the failure
ReturnPartial(l, error) ==
    [l EXCEPT !.pc = "returned", !.inFlight = @ - 1,
              !.groupList = GroupListOf(<<>>, l.responseData)]

\* catch (error) { throw error; }, lines 306-308
Rethrow(l, error) ==
    [l EXCEPT !.pc = "thrown", !.inFlight = @ - 1, !.error = error]

\* the lookup resumes with a response, lines 288-305, up to its next await
\* or its return
Resume(l, data) ==
    LET responseData == Push(l.responseData, data.value)
    IN IF ContinueLoop(l, data)
       THEN LET requestUrl == NextRequestUrl(l.requestUrl, data)
            IN [l EXCEPT !.responseData = responseData,
                         !.requestUrl = requestUrl,
                         !.requests = Append(@, GetRequest(requestUrl, l.config))]
       ELSE [l EXCEPT !.pc = "returned", !.inFlight = @ - 1,
                      !.responseData = responseData,
                      !.groupList = GroupListOf(<<>>, responseData)]

---------------------------------------------------------------------------
Init ==
    /\ loading = NotLoading
    /\ messageBox = NoMessage
    /\ allUsers = <<>>
    /\ store \in InitialStores
    /\ filter = FilterLoad(store)
    /\ filteredUsers = Null
    /\ pagination = NewPagination
    /\ selectedUsers = <<>>
    /\ allSelected = FALSE
    /\ ordering = NoOrdering
    /\ storeReads = 1
    /\ pendingEffects = EffectsOfMount
    /\ timers = {}
    /\ renders = 1
    /\ fetches = 0
    /\ location = "page"
    /\ batch = NoBatch
    /\ lookup = [c \in Callers |-> IdleLookup]
    /\ directory = NoDirectory
    /\ h = [lastSetSelection |-> <<>>,   \* last argument of setSelectedUsers
            pageFresh |-> TRUE,          \* pagination was set after filteredUsers
            burst |-> 0,                 \* applyFilter calls since the last
                                         \* recomputation (0, 1, 2 = more)
            collapsed |-> FALSE,         \* the last recomputation served >= 2 calls
            sinceCall |-> 0,             \* ms since the last applyFilter call
            appliedFilter |-> EmptyFilter, \* filter of the last recomputation
            viewAtSelectAll |-> <<>>,    \* the page when "select all" was set
            liveInvoke |-> FALSE,        \* removeUsers ran on a page that had
                                         \* changed since "select all" was set
            changedWhilePending |-> FALSE] \* the requests were issued after
                                         \* the selection had changed under
                                         \* the confirmation; none has settled

\* the passive effects of the last commit, in the order of their definition
\* (lines 83, 99, 105-107, 110-112)
RunEffects ==
    /\ UNCHANGED groupVars
    /\ Alive
    /\ pendingEffects # {}
    /\ IF "refreshAllUsers" \in pendingEffects
       THEN /\ allUsers' = <<>>
            /\ fetches' = fetches + 1
       ELSE UNCHANGED <<allUsers, fetches>>
    /\ store' = IF "save" \in pendingEffects THEN FilterSave(filter) ELSE store
    /\ IF "applyFilter" \in pendingEffects
       THEN /\ timers' = DebouncedCall(timers, applyFilterRef(renders), allUsers, filter)
            /\ h' = [h EXCEPT !.burst = Min(@ + 1, 2),
                              !.sinceCall = 0,
                              !.pageFresh = @ \/ "resetPage" \in pendingEffects]
       ELSE /\ timers' = timers
            /\ h' = [h EXCEPT !.pageFresh = @ \/ "resetPage" \in pendingEffects]
    /\ pagination' = IF "resetPage" \in pendingEffects
                     THEN [itemsPerPage |-> pagination.itemsPerPage, pageIndex |-> 0]
                     ELSE pagination
    /\ pendingEffects' = IF "refreshAllUsers" \in pendingEffects
                         THEN EffectsOfAllUsers ELSE {}
    /\ IF pendingEffects \cap {"refreshAllUsers", "resetPage"} # {}
       THEN Render ELSE NoRender
    /\ UNCHANGED <<loading, messageBox, filter, filteredUsers, selectedUsers,
                   allSelected, ordering, location, batch>>

\* setFilter with a new Filter (context, line 194)
setFilter(f) ==
    /\ UNCHANGED groupVars
    /\ Idle
    /\ filter' = f
    /\ pendingEffects' = EffectsOfFilter
    /\ Render
    /\ UNCHANGED <<loading, messageBox, allUsers, filteredUsers, pagination,
                   selectedUsers, allSelected, ordering, store, timers, fetches,
                   location, batch, h>>

\* context.setOrdering, line 192
setOrdering(o) ==
    /\ UNCHANGED groupVars
    /\ Idle
    /\ ordering' = o
    /\ Render
    /\ UNCHANGED <<loading, messageBox, allUsers, filter, filteredUsers, pagination,
                   selectedUsers, allSelected, store, pendingEffects, timers,
                   fetches, location, batch, h>>

\* context.setPagination, line 196
setPagination(p) ==
    /\ UNCHANGED groupVars
    /\ Idle
    /\ pagination' = p
    /\ h' = [h EXCEPT !.pageFresh = TRUE]
    /\ Render
    /\ UNCHANGED <<loading, messageBox, allUsers, filter, filteredUsers,
                   selectedUsers, allSelected, ordering, store, pendingEffects,
                   timers, fetches, location, batch>>

\* context.setSelectedUsers, line 197
setSelectedUsers(s) ==
    /\ UNCHANGED groupVars
    /\ Idle
    /\ selectedUsers' = s
    /\ h' = [h EXCEPT !.lastSetSelection = s]
    /\ Render
    /\ UNCHANGED <<loading, messageBox, allUsers, filter, filteredUsers, pagination,
                   allSelected, ordering, store, pendingEffects, timers, fetches,
                   location, batch>>

\* context.setAllSelected, line 199
setAllSelected(b) ==
    /\ UNCHANGED groupVars
    /\ Idle
    /\ b # allSelected
    /\ allSelected' = b
    /\ h' = [h EXCEPT !.viewAtSelectAll =
                 IF b THEN PaginationApply(pagination,
                               OrderingApply(ordering, OrEmpty(filteredUsers)))
                 ELSE <<>>]
    /\ Render
    /\ UNCHANGED <<loading, messageBox, allUsers, filter, filteredUsers, pagination,
                   selectedUsers, ordering, store, pendingEffects, timers, fetches,
                   location, batch>>

\* refreshAllUsers called through the context (line 188)
refreshAllUsers ==
    /\ UNCHANGED groupVars
    /\ Idle
    /\ fetches < MaxFetches
    /\ allUsers' = <<>>
    /\ fetches' = fetches + 1
    /\ pendingEffects' = EffectsOfAllUsers
    /\ Render
    /\ UNCHANGED <<loading, messageBox, filter, filteredUsers, pagination,
                   selectedUsers, allSelected, ordering, store, timers, location,
                   batch, h>>

\* getAllUsersRequest resolves, lines 75-77
FetchResolved(data) ==
    /\ UNCHANGED groupVars
    /\ Idle
    /\ fetches > 0
    /\ fetches' = fetches - 1
    /\ allUsers' = data
    /\ pendingEffects' = EffectsOfAllUsers
    /\ Render
    /\ UNCHANGED <<loading, messageBox, filter, filteredUsers, pagination,
                   selectedUsers, allSelected, ordering, store, timers, location,
                   batch, h>>

\* getAllUsersRequest rejects, lines 77-78: showMessageBox(err)
FetchRejected ==
    /\ UNCHANGED groupVars
    /\ Idle
    /\ fetches > 0
    /\ fetches' = fetches - 1
    /\ messageBox' = [text |-> <<"Error: ", "fetch">>, confirm |-> FALSE,
                      resolve |-> "fetchError"]
    /\ batch' = Superseded(batch)
    /\ Render
    /\ UNCHANGED <<loading, allUsers, filter, filteredUsers, pagination,
                   selectedUsers, allSelected, ordering, store, pendingEffects,
                   timers, location, h>>

\* time passes until the next timer is due
Tick ==
    /\ UNCHANGED groupVars
    /\ Idle
    /\ LET waits == {t.remaining : t \in {x \in timers : x.remaining > 0}}
                        \cup (IF batch.timer > 0 THEN {batch.timer} ELSE {})
       IN /\ waits # {}
          /\ LET d == CHOOSE x \in waits : \A y \in waits : x <= y
             IN /\ timers' = {[t EXCEPT !.remaining = IF @ > d THEN @ - d ELSE 0]
                                : t \in timers}
                /\ batch' = IF batch.timer > 0
                            THEN [batch EXCEPT !.timer = @ - d] ELSE batch
                /\ h' = IF timers = {} THEN h
                        ELSE [h EXCEPT !.sinceCall = Min(@ + d, DebounceWait)]
    /\ NoRender
    /\ UNCHANGED <<loading, messageBox, allUsers, filter, filteredUsers, pagination,
                   selectedUsers, allSelected, ordering, store, pendingEffects,
                   fetches, location>>

\* the debounce timer fires: the debounced function body, line 103
FireApplyFilter ==
    /\ UNCHANGED groupVars
    /\ Idle
    /\ \E t \in timers :
          /\ t.remaining = 0
          /\ filteredUsers' = FilterApply(t.filter, t.allUsers)
          /\ timers' = timers \ {t}
          /\ h' = [h EXCEPT !.burst = 0, !.collapsed = (h.burst >= 2),
                            !.sinceCall = IF timers = {t} THEN 0 ELSE @,
                            !.pageFresh = FALSE, !.appliedFilter = t.filter]
    /\ pendingEffects' = EffectsOfFilteredUsers
    /\ Render
    /\ UNCHANGED <<loading, messageBox, allUsers, filter, pagination, selectedUsers,
                   allSelected, ordering, store, fetches, location, batch>>

---------------------------------------------------------------------------
(* Batch remove, lines 130-157                                             *)

FinishedPhases == {"idle", "declined", "confirmDropped", "refreshed", "summaryDropped"}

ConfirmText(selected) ==
    <<"Are you sure to remove ",
      IF Len(selected) = 1 THEN "the user" ELSE "these users", "?">>

\* result instanceof Error, line 139: the value a request's catch handler
\* returned is an Error object
InstanceOfError(r) == r.kind = "Error"

\* String(value) of a value a request rejected with
StringOf(r) ==
    IF r.kind = "Error" THEN <<"Error: ", ToString(r.user)>> ELSE <<ToString(r.user)>>

RECURSIVE ErrorLines(_)
ErrorLines(errors) ==
    IF errors = <<>> THEN <<>>
    ELSE <<"\n">> \o StringOf(errors[1]) \o ErrorLines(Tail(errors))

\* the summary text, lines 139-148
SummaryMessage(selected, results) ==
    LET errors == SelectSeq(results, InstanceOfError)
        message == <<"Remove ", IF Len(selected) = 1 THEN "user" ELSE "users", " ">>
    IN IF Len(errors) = 0
       THEN message \o <<"successfully.">>
       ELSE message \o <<"with ", ToString(Len(errors)), " failed.">>
                    \o ErrorLines(errors)

\* Promise.all over requests that have no catch handler of their own: it
\* settles with the first rejection
PromiseAllShortCircuit(results) ==
    \/ \A i \in 1..Len(results) : results[i].kind # "pending"
    \/ \E i \in 1..Len(results) : results[i].kind \in {"Error", "nonError"}

\* Promise.all over the requests, each with its own catch handler (line 136):
\* resolves when every request has settled
PromiseAllResolved(results) ==
    \A i \in 1..Len(results) : results[i].kind # "pending"

\* context.removeUsers, lines 130-132
removeUsers ==
    /\ UNCHANGED groupVars
    /\ Idle
    /\ batch.phase \in FinishedPhases
    /\ LET selected == getSelectedUsers
       IN /\ batch' = [NoBatch EXCEPT !.phase = "confirming", !.selected = selected]
          /\ messageBox' = [text |-> ConfirmText(selected), confirm |-> TRUE,
                            resolve |-> "removeConfirm"]
          /\ h' = [h EXCEPT !.liveInvoke =
                       allSelected /\ selected # h.viewAtSelectAll,
                            !.changedWhilePending = FALSE]
    /\ Render
    /\ UNCHANGED <<loading, allUsers, filter, filteredUsers, pagination,
                   selectedUsers, allSelected, ordering, store, pendingEffects,
                   timers, fetches, location>>

\* a continuation that goes on whatever the confirmation was dismissed with
ConfirmedWhatever(value) == TRUE

\* if (confirmed), line 133: the value the confirmation was dismissed with
Confirmed(value) == value

\* requests for the selection as it is when the confirmation is answered
TargetsAtConfirmation(b) == getSelectedUsers

\* selected.map(...), line 136: the const of line 131, which the
\* continuation closes over
TargetsOf(b) == b.selected

\* hideMessageBox(value), lines 64-70, with the continuation of the promise
\* it resolves (lines 79, 133-136, 151)
hideMessageBox(value) ==
    /\ UNCHANGED groupVars
    /\ Idle
    /\ messageBox.text # <<>>
    /\ messageBox' = NoMessage
    /\ CASE messageBox.resolve = "fetchError" ->
              /\ location' = "/"
              /\ UNCHANGED <<loading, allUsers, fetches, pendingEffects, batch>>
         [] messageBox.resolve = "removeConfirm" /\ Confirmed(value) ->
              /\ loading' = [show |-> TRUE, text |-> "Processing..."]
              /\ LET selected == TargetsOf(batch)
                 IN batch' = [batch EXCEPT
                        !.phase = "requesting",
                        !.requests = [i \in 1..Len(selected) |-> selected[i]],
                        !.results = [i \in 1..Len(selected) |->
                                        [kind |-> "pending", user |-> selected[i]]]]
              /\ UNCHANGED <<location, allUsers, fetches, pendingEffects>>
         [] messageBox.resolve = "removeConfirm" /\ ~Confirmed(value) ->
              /\ batch' = [NoBatch EXCEPT !.phase = "declined"]
              /\ UNCHANGED <<location, loading, allUsers, fetches, pendingEffects>>
         [] messageBox.resolve = "removeSummary" ->
              /\ fetches < MaxFetches
              /\ allUsers' = <<>>
              /\ fetches' = fetches + 1
              /\ pendingEffects' = EffectsOfAllUsers
              /\ batch' = [batch EXCEPT !.phase = "refreshed", !.refreshes = @ + 1]
              /\ UNCHANGED <<location, loading>>
         [] OTHER ->
              UNCHANGED <<location, loading, allUsers, fetches, pendingEffects, batch>>
    /\ h' = IF messageBox.resolve = "removeConfirm" /\ Confirmed(value)
            THEN [h EXCEPT !.changedWhilePending = (getSelectedUsers # batch.selected)]
            ELSE h
    /\ Render
    /\ UNCHANGED <<filter, filteredUsers, pagination, selectedUsers, allSelected,
                   ordering, store, timers>>

\* one removeUserRequest settles; a rejection is caught by its own handler
\* (line 136) and becomes the request's result
SettleRequest(i, kind) ==
    /\ UNCHANGED groupVars
    /\ Alive
    /\ batch.phase = "requesting"
    /\ i \in 1..Len(batch.results)
    /\ batch.results[i].kind = "pending"
    /\ batch' = [batch EXCEPT !.results[i].kind = kind]
    /\ h' = [h EXCEPT !.changedWhilePending = FALSE]
    /\ UNCHANGED <<loading, messageBox, allUsers, filter, filteredUsers, pagination,
                   selectedUsers, allSelected, ordering, store, storeReads,
                   pendingEffects, timers, renders, fetches, location>>

\* the then-callback of Promise.all, lines 137-153
AllSettled ==
    /\ UNCHANGED groupVars
    /\ Idle
    /\ batch.phase = "requesting"
    /\ PromiseAllResolved(batch.results)
    /\ loading' = NotLoading
    /\ batch' = [batch EXCEPT !.phase = "waiting",
                              !.message = SummaryMessage(batch.selected, batch.results),
                              !.timer = SummaryDelay]
    /\ h' = [h EXCEPT !.changedWhilePending = FALSE]
    /\ Render
    /\ UNCHANGED <<messageBox, allUsers, filter, filteredUsers, pagination,
                   selectedUsers, allSelected, ordering, store, pendingEffects,
                   timers, fetches, location>>

\* the setTimeout callback, lines 149-150: showMessageBox(message)
ShowSummary ==
    /\ UNCHANGED groupVars
    /\ Idle
    /\ batch.phase = "waiting"
    /\ batch.timer = 0
    /\ messageBox' = [text |-> batch.message, confirm |-> FALSE,
                      resolve |-> "removeSummary"]
    /\ batch' = [batch EXCEPT !.phase = "summary", !.timer = -1]
    /\ Render
    /\ UNCHANGED <<loading, allUsers, filter, filteredUsers, pagination,
                   selectedUsers, allSelected, ordering, store, pendingEffects,
                   timers, fetches, location, h>>

ResultKinds == {"resolved", "Error", "nonError"}

---------------------------------------------------------------------------
(* Group lookup: the calls and the directory's answers                     *)

\* getUserGroupList(username, config) is called: two calls for different
\* users with the same config, answered alike by the directory
getUserGroupList(username, other, config) ==
    /\ username # other
    /\ \A c \in Callers : lookup[c].pc # "awaiting"
    /\ lookup' = [c \in Callers |->
                     StartLookup(IF c = 1 THEN username ELSE other, config)]
    /\ directory' = NoDirectory
    /\ UNCHANGED viewVars

\* axios.get resolves with a page, line 282
PageArrives(data) ==
    /\ \E c \in Callers : lookup[c].pc = "awaiting"
    /\ Len(directory.responses) < MaxPages
    /\ lookup' = [c \in Callers |->
                     IF lookup[c].pc = "awaiting"
                     THEN Resume(lookup[c], data) ELSE lookup[c]]
    /\ directory' = [directory EXCEPT !.responses = Append(@, data)]
    /\ UNCHANGED viewVars

\* axios.get rejects, line 282
PageFails(error) ==
    /\ \E c \in Callers : lookup[c].pc = "awaiting"
    /\ lookup' = [c \in Callers |->
                     IF lookup[c].pc = "awaiting"
                     THEN Rethrow(lookup[c], error) ELSE lookup[c]]
    /\ directory' = [directory EXCEPT !.failure = error]
    /\ UNCHANGED viewVars

\* group lookups against a directory that answers page after page
GroupNext ==
    \/ \E username \in Usernames, other \in Usernames,
          msGraphUrl \in GraphUrls, accessToken \in AccessTokens :
          getUserGroupList(username, other, initConfig(msGraphUrl, accessToken))
    \/ \E data \in Pages : PageArrives(data)
    \/ \E error \in FetchErrors : PageFails(error)

SpecGroup == Init /\ [][GroupNext]_vars

\* every fetch completes: a request in flight is answered
SpecGroupFair ==
    /\ SpecGroup
    /\ WF_vars(\E data \in Pages : PageArrives(data))

\* a batch remove of an explicit selection, next to the user-list fetches
BatchNext ==
    \/ RunEffects
    \/ \E s \in SelectionChoices : setSelectedUsers(s)
    \/ FetchResolved(ListOf(Users))
    \/ FetchRejected
    \/ Tick
    \/ FireApplyFilter
    \/ removeUsers
    \/ \E value \in BOOLEAN : hideMessageBox(value)
    \/ \E i \in 1..NumUsers, kind \in ResultKinds : SettleRequest(i, kind)
    \/ AllSettled
    \/ ShowSummary

SpecBatch == Init /\ [][BatchNext]_vars

\* the filter, the user list and the page: the debounced recomputation
\* and the effects
ViewNext ==
    \/ RunEffects
    \/ \E f \in FilterChoices : setFilter(f)
    \/ \E n \in ItemsPerPageChoices, i \in 0..MaxPage :
          setPagination([itemsPerPage |-> n, pageIndex |-> i])
    \/ refreshAllUsers
    \/ \E data \in UserLists : FetchResolved(data)
    \/ Tick
    \/ FireApplyFilter

SpecView == Init /\ [][ViewNext]_vars

\* the effects of a commit run, time passes and a timer that is due fires
SpecViewFair ==
    /\ SpecView
    /\ WF_vars(RunEffects)
    /\ WF_vars(Tick)
    /\ WF_vars(FireApplyFilter)

\* the view under a selection that is resolved by removeUsers; the
\* confirmation is always declined
SelectNext ==
    \/ RunEffects
    \/ \E f \in {EmptyFilter, [EmptyFilter EXCEPT !.admin = "true"]} : setFilter(f)
    \/ \E o \in OrderingChoices : setOrdering(o)
    \/ \E i \in 0..MaxPage :
          setPagination([itemsPerPage |-> pagination.itemsPerPage, pageIndex |-> i])
    \/ \E s \in SelectionChoices : setSelectedUsers(s)
    \/ \E b \in BOOLEAN : setAllSelected(b)
    \/ \E data \in UserLists : FetchResolved(data)
    \/ Tick
    \/ FireApplyFilter
    \/ removeUsers
    \/ hideMessageBox(FALSE)

SpecSelect == Init /\ [][SelectNext]_vars

\* a batch remove whose confirmation may be accepted, under a view and a
\* selection that change meanwhile; every request succeeds
ConfirmNext ==
    \/ RunEffects
    \/ \E i \in 0..MaxPage :
          setPagination([itemsPerPage |-> pagination.itemsPerPage, pageIndex |-> i])
    \/ \E s \in SelectionChoices : setSelectedUsers(s)
    \/ \E b \in BOOLEAN : setAllSelected(b)
    \/ FetchResolved(ListOf(Users))
    \/ Tick
    \/ FireApplyFilter
    \/ removeUsers
    \/ \E value \in BOOLEAN : hideMessageBox(value)
    \/ \E i \in 1..NumUsers : SettleRequest(i, "resolved")
    \/ AllSettled
    \/ ShowSummary

SpecConfirm == Init /\ [][ConfirmNext]_vars

Next == ViewNext \/ SelectNext \/ BatchNext \/ ConfirmNext \/ GroupNext

Spec == Init /\ [][Next]_vars

---------------------------------------------------------------------------
(* Properties of the batch remove                                          *)

Issued == batch.phase \in {"requesting", "waiting", "summary", "refreshed",
                           "summaryDropped"}

Summarised == batch.phase \in {"waiting", "summary", "refreshed", "summaryDropped"}

Failed(r) == r.kind \in {"Error", "nonError"}

\* C1: once the confirmation is accepted, exactly one remove request has
\* been issued for each selected user, in selection order, whatever the
\* outcomes of the others; the summary exists only when every request of
\* the batch has settled and its outcome is in the results.
C1_BatchRemoveIsolation ==
    /\ Issued =>
          /\ Len(batch.requests) = Len(batch.selected)
          /\ \A i \in 1..Len(batch.selected) :
                /\ batch.requests[i] = batch.selected[i]
                /\ batch.results[i].user = batch.selected[i]
          /\ Len(batch.results) = Len(batch.selected)
    /\ ~Issued => batch.requests = <<>>
    /\ (Summarised \/ batch.message # <<>>) =>
          \A i \in 1..Len(batch.results) : batch.results[i].kind # "pending"

\* a batch of several users in which one request failed and another
\* succeeded has been summarised
C1_Witness ==
    /\ batch.phase = "summary"
    /\ Len(batch.selected) >= 2
    /\ \E i, j \in 1..Len(batch.results) :
          /\ i < j
          /\ Failed(batch.results[i])
          /\ batch.results[j].kind = "resolved"

\* the summary the claim C2 describes: failures are the requests that
\* rejected, whatever they rejected with
SummaryOfFailures(selected, results) ==
    LET failures == SelectSeq(results, Failed)
        head == <<"Remove ", IF Len(selected) = 1 THEN "user" ELSE "users", " ">>
    IN IF Len(failures) = 0
       THEN head \o <<"successfully.">>
       ELSE head \o <<"with ", ToString(Len(failures)), " failed.">>
                 \o ErrorLines(failures)

\* C2: the summary text says "successfully." exactly when no remove request
\* failed, and otherwise "with N failed." and one line per failure in
\* selection order, N being the number of requests that failed, whatever
\* they rejected with; "user" exactly when one user is selected.
C2_SummaryCountsEveryFailure ==
    Summarised => batch.message = SummaryOfFailures(batch.selected, batch.results)

\* C3: after a confirmed batch remove whose requests have all settled, the
\* user list is refreshed exactly once, whatever the outcomes: a batch that
\* can go no further has triggered one refresh.
C3_RefreshExactlyOnce ==
    batch.phase \in {"refreshed", "summaryDropped"} => batch.refreshes = 1

---------------------------------------------------------------------------
(* Properties of the selection                                             *)

\* C4: with "all selected" set, getSelectedUsers is the current page of the
\* ordered current filtered list (empty while that list is null): user i of
\* the result is user pageIndex * itemsPerPage + i of the ordered list, the
\* page is complete, and every user returned is in the filtered list and
\* passed the filter that produced it.
C4_SelectAllIsCurrentPage ==
    allSelected =>
        LET list == OrEmpty(filteredUsers)
            ordered == OrderingApply(ordering, list)
            first == pagination.pageIndex * pagination.itemsPerPage
            result == getSelectedUsers
        IN /\ Len(result) <= pagination.itemsPerPage
           /\ first + Len(result) <= Len(ordered) \/ result = <<>>
           /\ Len(result) = pagination.itemsPerPage
                 \/ first + Len(result) >= Len(ordered)
           /\ \A i \in 1..Len(result) :
                 /\ result[i] = ordered[first + i]
                 /\ result[i] \in Range(list)
                 /\ FilterMatches(h.appliedFilter, result[i])
           /\ filteredUsers = Null => result = <<>>

\* "select all" returns a page that leaves out a user the filter rejected
\* and a user of another page
C4_Witness ==
    /\ allSelected
    /\ getSelectedUsers # <<>>
    /\ filteredUsers # Null
    /\ \E u \in Range(allUsers) : u \notin Range(filteredUsers)
    /\ \E u \in Range(filteredUsers) : u \notin Range(getSelectedUsers)

\* C5: a batch action invoked with "all selected" set takes the page of the
\* ordered filtered list as it is at the invocation, not as it was when the
\* flag was set.
C5_SelectAllIsLive ==
    [][(batch'.phase = "confirming" /\ batch.phase # "confirming" /\ allSelected)
          => batch'.selected =
                PaginationApply(pagination,
                    OrderingApply(ordering, OrEmpty(filteredUsers)))]_vars

\* removeUsers has resolved "select all" to a page that differs from the
\* page shown when the flag was set
C5_Witness ==
    /\ batch.phase = "confirming"
    /\ allSelected
    /\ h.liveInvoke
    /\ batch.selected # <<>>
    /\ h.viewAtSelectAll # <<>>

\* C6: with "all selected" clear, getSelectedUsers is the list last given
\* to setSelectedUsers, whatever has happened to the filter, the ordering,
\* the page and the user list since.
C6_ExplicitSelectionVerbatim ==
    ~allSelected => getSelectedUsers = h.lastSetSelection

\* the explicit selection holds a user that has left the user list and a
\* user the current filter rejects
C6_Witness ==
    /\ ~allSelected
    /\ filteredUsers # Null
    /\ \E u \in Range(getSelectedUsers) : u \notin Range(allUsers)
    /\ \E u \in Range(getSelectedUsers) :
          /\ u \in Range(allUsers)
          /\ ~FilterMatches(filter, u)
          /\ u \notin Range(filteredUsers)

---------------------------------------------------------------------------
(* Properties of the filter, the debounce and the page                     *)

\* C7: no rendered state pairs a filtered list that has just changed with
\* a non-zero page index left over from the list before it.
C7_NoStalePageRendered ==
    ~h.pageFresh => pagination.pageIndex = 0

\* C8: at most one recomputation is pending, one is pending exactly when
\* applyFilter was called since the last recomputation, and a recomputation
\* happens only after the quiet period, on the filter and the user list of
\* the last change.
C8_DebouncedRecomputation ==
    /\ [](/\ Cardinality(timers) <= 1
          /\ (h.burst > 0) <=> (timers # {}))
    /\ [][(h.burst > 0 /\ h'.burst = 0) =>
             /\ filteredUsers' = FilterApply(filter, allUsers)
             /\ h.sinceCall >= DebounceWait]_vars

\* one recomputation has served several calls of applyFilter, and its
\* result is the current filter applied to the current user list
C8_Witness ==
    /\ h.collapsed
    /\ timers = {}
    /\ allUsers # <<>>
    /\ filter # EmptyFilter
    /\ filteredUsers = FilterApply(filter, allUsers)

\* C9: once the effects of a commit have run, the store holds the filter
\* of that commit, whether or not the recomputation has run.
C9_FilterSavedOnEveryChange ==
    "save" \notin pendingEffects => store = FilterSave(filter)

\* the store holds a filter set by an edit while the filtered list is still
\* the result of an earlier filter and its recomputation is pending
C9_Witness ==
    /\ "save" \notin pendingEffects
    /\ store = FilterSave(filter)
    /\ filter \notin {FilterLoad(s) : s \in InitialStores}
    /\ timers # {}
    /\ filteredUsers # Null
    /\ h.appliedFilter # filter

\* C10: the persisted filter store is read once, at startup.
C10_StoreReadOnce ==
    storeReads <= 1

---------------------------------------------------------------------------
(* Properties of the group lookup                                          *)

\* the group records of the pages served, in the order served
RECURSIVE RecordsServed(_)
RecordsServed(responses) ==
    IF responses = <<>> THEN <<>>
    ELSE responses[1].value \o RecordsServed(Tail(responses))

\* the names of the records that have a non-empty displayName
NamesServed(responses) ==
    LET named == SelectSeq(RecordsServed(responses),
                           LAMBDA g : g.displayName \notin {<<>>, <<"">>})
    IN [i \in 1..Len(named) |-> named[i].displayName[1]]

\* C12: a lookup that returns, returns the display names of the records
\* served that have one (a non-empty one), page after page in the order
\* fetched and in the order of each page, the other records left out; as
\* long as it is fetching it holds the pages as they were served,
\* unfiltered, and has no group list yet
C12_ResultIsConcatenationOfNames ==
    \A c \in Callers :
       /\ lookup[c].pc = "returned" =>
             /\ directory.responses # <<>>
             /\ directory.responses[Len(directory.responses)].nextLinks = <<>>
             /\ lookup[c].groupList = NamesServed(directory.responses)
       /\ lookup[c].pc = "awaiting" =>
             /\ lookup[c].groupList = <<>>
             /\ lookup[c].responseData =
                   [i \in 1..Len(directory.responses) |-> directory.responses[i].value]

\* a lookup over three pages returned names of more than one page and left
\* out records without a name
C12_Witness ==
    /\ lookup[1].pc = "returned"
    /\ Len(directory.responses) = 3
    /\ \A i \in 1..3 : \E g \in Range(directory.responses[i].value) :
                          g.displayName \notin {<<>>, <<"">>}
    /\ \E g \in Range(RecordsServed(directory.responses)) : g.displayName = <<>>
    /\ \E g \in Range(RecordsServed(directory.responses)) : g.displayName = <<"">>
    /\ Len(lookup[1].groupList) < Len(RecordsServed(directory.responses))
    /\ Len(lookup[1].groupList) >= 4

\* what the directory has served carries a link on every page
AllLinked(responses) == \A i \in 1..Len(responses) : responses[i].nextLinks # <<>>

\* the last page served has no link
LastUnlinked(responses) ==
    responses # <<>> /\ responses[Len(responses)].nextLinks = <<>>

\* C13: a lookup has at most one request in flight, and one exactly while
\* it awaits; its first request goes to <msGraphUrl>v1.0/me/memberOf, its
\* k+1-th request goes to the '@odata.nextLink' of the k-th response, and
\* it has issued one request per response, plus the one in flight or the
\* one that failed: none after a response without the link
C13_PagesFetchedInSequence ==
    \A c \in Callers :
       LET l == lookup[c]
           answered == Len(directory.responses)
       IN l.pc # "idle" =>
             /\ l.inFlight = (IF l.pc = "awaiting" THEN 1 ELSE 0)
             /\ l.requests[1].url = l.config.msGraphAPI
             /\ l.config.msGraphAPI[1] \in GraphUrls
             /\ l.config.msGraphAPI[2] = "v1.0/me/memberOf"
             /\ Len(l.requests) =
                   answered + (IF l.pc \in {"awaiting", "thrown"} THEN 1 ELSE 0)
             /\ \A k \in 2..Len(l.requests) :
                   directory.responses[k - 1].nextLinks = <<l.requests[k].url>>
             /\ LastUnlinked(directory.responses) => Len(l.requests) = answered

\* a lookup has followed two different links and awaits the third page
C13_Witness ==
    /\ lookup[1].pc = "awaiting"
    /\ Len(lookup[1].requests) = 3
    /\ lookup[1].requests[2].url # lookup[1].requests[3].url
    /\ lookup[1].requests[2].url # lookup[1].requests[1].url

\* C14: when a page fetch has failed, the lookup has thrown the error the
\* fetch failed with, it has no group list, it has no request in flight and
\* the failed request is the last one it issued; it stays so until the next
\* call; and a lookup throws only what a fetch failed with
C14_FailureAbortsLookup ==
    /\ [](\A c \in Callers :
             /\ directory.failure # "none" =>
                   /\ lookup[c].pc = "thrown"
                   /\ lookup[c].error = directory.failure
                   /\ lookup[c].groupList = <<>>
                   /\ lookup[c].inFlight = 0
                   /\ Len(lookup[c].requests) = Len(directory.responses) + 1
             /\ lookup[c].pc = "thrown" => directory.failure # "none")
    /\ [][\A c \in Callers :
             lookup[c].pc = "thrown" =>
                \/ lookup'[c] = lookup[c]
                \/ /\ lookup'[c].pc = "awaiting"
                   /\ Len(lookup'[c].requests) = 1
                   /\ directory' = NoDirectory]_vars

\* the third fetch failed after two pages with named groups had been served
C14_Witness ==
    /\ lookup[1].pc = "thrown"
    /\ lookup[1].error = "ETIMEDOUT"
    /\ Len(directory.responses) = 2
    /\ \A i \in 1..2 : NamesServed(<<directory.responses[i]>>) # <<>>

\* C15: as long as no fetch fails, a lookup has returned exactly when the
\* last page served has no '@odata.nextLink', and then it has issued as
\* many requests as pages were served, of which all but the last had the
\* link; while every page served has the link the lookup goes on fetching,
\* however many pages that is; and, every fetch completing, a lookup that
\* awaits a page gets further (to one more page, or to its end)
C15_TerminatesAtFirstPageWithoutLink ==
    /\ [](\A c \in Callers :
             (lookup[c].pc # "idle" /\ directory.failure = "none") =>
                /\ lookup[c].pc = "returned" <=> LastUnlinked(directory.responses)
                /\ lookup[c].pc = "returned" =>
                      /\ Len(lookup[c].requests) = Len(directory.responses)
                      /\ AllLinked(SubSeq(directory.responses, 1,
                                          Len(directory.responses) - 1))
                /\ AllLinked(directory.responses) =>
                      /\ lookup[c].pc = "awaiting"
                      /\ lookup[c].inFlight = 1
                      /\ Len(lookup[c].requests) = Len(directory.responses) + 1)
    /\ \A n \in 0..(MaxPages - 1) :
          (lookup[1].pc = "awaiting" /\ Len(directory.responses) = n)
             ~> (lookup[1].pc # "awaiting" \/ Len(directory.responses) # n)

\* a lookup returned after as many fetches as the model follows, the last
\* page being the first one without the link
C15_Witness ==
    /\ lookup[1].pc = "returned"
    /\ Len(directory.responses) = MaxPages
    /\ Len(lookup[1].requests) = MaxPages
    /\ lookup[1].inFlight = 0

\* C20: two lookups for different users, with the same config and answered
\* alike, are at the same point, have issued the same requests (URLs and
\* headers, the first one to the 'me/memberOf' resource with the bearer
\* token of the config) and have the same group list or the same error
C20_UsernameIsNotUsed ==
    lookup[1].pc # "idle" =>
       /\ lookup[1].username # lookup[2].username
       /\ lookup[1].config = lookup[2].config
       /\ lookup[1].pc = lookup[2].pc
       /\ lookup[1].requests = lookup[2].requests
       /\ lookup[1].groupList = lookup[2].groupList
       /\ lookup[1].error = lookup[2].error
       /\ lookup[1].requests[1].url[2] = "v1.0/me/memberOf"
       /\ \A k \in 1..Len(lookup[1].requests) :
             /\ lookup[1].requests[k].headers.Accept = "application/json"
             /\ lookup[1].requests[k].headers.Authorization[1] = "Bearer "
             /\ lookup[1].requests[k].headers.Authorization[2] \in AccessTokens
             /\ lookup[1].requests[k].headers.Authorization
                   = lookup[1].config.Authorization

\* the lookups for alice and for bob returned the same names after the same
\* two requests
C20_Witness ==
    /\ lookup[1].username = "alice"
    /\ lookup[2].username = "bob"
    /\ lookup[1].pc = "returned"
    /\ lookup[2].pc = "returned"
    /\ Len(lookup[2].requests) = 2
    /\ lookup[2].groupList # <<>>

---------------------------------------------------------------------------
(* Properties of the message box                                           *)

\* a step in which a getAllUsersRequest rejects: a fetch leaves the ones in
\* flight and no effect is left to run (a fetch that resolves sets allUsers)
FetchRejectedStep == fetches' < fetches /\ pendingEffects' = {}

\* C11: when the fetch of the user list fails, the error is put in the
\* message box and the user list is empty; the message box then keeps the
\* error, and the user list stays empty, until the message is dismissed,
\* which leaves the page for '/'
C11_FetchFailureSurfacedUntilRedirect ==
    [][/\ FetchRejectedStep =>
             /\ messageBox'.resolve = "fetchError"
             /\ messageBox'.text # <<>>
             /\ allUsers' = <<>>
       /\ messageBox.resolve = "fetchError" =>
             \/ messageBox' = messageBox /\ allUsers' = <<>>
             \/ messageBox' = NoMessage /\ location' = "/"]_vars

\* C16: a confirmation of removeUsers that is dismissed without confirming
\* (in SpecSelect every dismissal is one) ends the call: no request is
\* issued, the loading mask is not shown, there is no summary, no timer and
\* no refresh, and the step changes neither the user list, the filtered
\* list, the selection, the page, the ordering, the filter nor what is
\* pending; a declined call stays without requests
C16_DeclinedConfirmationChangesNothing ==
    /\ [][(messageBox.resolve = "removeConfirm" /\ messageBox'.text = <<>>) =>
             /\ batch' = [NoBatch EXCEPT !.phase = "declined"]
             /\ loading' = NotLoading
             /\ UNCHANGED <<loading, allUsers, filteredUsers, selectedUsers,
                            allSelected, pagination, ordering, filter, store,
                            fetches, timers, pendingEffects, location>>]_vars
    /\ [](batch.phase = "declined" =>
             /\ batch.requests = <<>>
             /\ batch.results = <<>>
             /\ batch.message = <<>>
             /\ batch.timer = -1
             /\ batch.refreshes = 0
             /\ ~loading.show)

\* a removal of a non-empty selection was declined and the view is as it was
C16_Witness ==
    /\ batch.phase = "declined"
    /\ messageBox = NoMessage
    /\ getSelectedUsers # <<>>
    /\ allUsers = ListOf(Users)
    /\ filteredUsers = allUsers
    /\ fetches = 0

\* C17: removeUsers resolves the selection when it is invoked and words the
\* confirmation for it; the call keeps that selection whatever the view
\* and the selection become while the confirmation is pending and after;
\* the requests issued on confirmation are for these users, one each and in
\* this order, and the summary is worded for their number
C17_TargetsFixedAtInvocation ==
    /\ [][(batch.phase \in FinishedPhases /\ batch'.phase = "confirming") =>
             /\ batch'.selected = getSelectedUsers
             /\ messageBox'.text = ConfirmText(getSelectedUsers)]_vars
    /\ [][batch.phase \notin FinishedPhases =>
             \/ batch'.selected = batch.selected
             \/ batch'.phase = "declined"]_vars
    /\ [](Issued =>
             /\ batch.requests = batch.selected
             /\ Len(batch.results) = Len(batch.selected)
             /\ \A i \in 1..Len(batch.selected) :
                   batch.results[i].user = batch.selected[i])
    /\ [](Summarised =>
             batch.message[2] = (IF Len(batch.selected) = 1 THEN "user" ELSE "users"))

\* the selection resolved to other users when the confirmation was accepted
\* than when removeUsers was invoked ("select all" is set and the page has
\* a user): the requests are for the users removeUsers was invoked with
C17_Witness ==
    /\ batch.phase = "requesting"
    /\ h.changedWhilePending
    /\ allSelected
    /\ batch.requests # <<>>
    /\ batch.requests = batch.selected
    /\ getSelectedUsers # <<>>
    /\ getSelectedUsers # batch.requests

\* a step that dismisses the message displayed
Dismissal == messageBox.text # <<>> /\ messageBox' = NoMessage

\* a step that requests a message while another one is displayed
Replacement ==
    /\ messageBox.text # <<>>
    /\ messageBox'.text # <<>>
    /\ messageBox' # messageBox \/ FetchRejectedStep

\* C19: dismissing the message box hides it and runs the continuation of
\* the message requested last, and of no other: the redirect for a fetch
\* error, the requests or the end of the call for a confirmation, the
\* refresh for a summary.  A message requested while another is displayed
\* takes its place; the continuation of the replaced message does not run
\* then and never runs later: a call whose confirmation was replaced issues
\* no request, a call whose summary was replaced triggers no refresh, and
\* the page is left only by dismissing a fetch error that is displayed
C19_LastRequestedMessageIsResolved ==
    /\ [][Dismissal =>
             /\ messageBox.resolve = "fetchError" =>
                   location' = "/" /\ batch' = batch /\ fetches' = fetches
             /\ messageBox.resolve = "removeConfirm" =>
                   /\ batch.phase = "confirming"
                   /\ batch'.phase \in {"requesting", "declined"}
                   /\ location' = location /\ fetches' = fetches
             /\ messageBox.resolve = "removeSummary" =>
                   /\ batch.phase = "summary"
                   /\ batch' = [batch EXCEPT !.phase = "refreshed",
                                             !.refreshes = batch.refreshes + 1]
                   /\ fetches' = fetches + 1
                   /\ location' = location]_vars
    /\ [][Replacement =>
             /\ location' = location
             /\ fetches' <= fetches
             /\ messageBox.resolve = "removeConfirm" =>
                   batch' = [batch EXCEPT !.phase = "confirmDropped"]
             /\ messageBox.resolve = "removeSummary" =>
                   batch' = [batch EXCEPT !.phase = "summaryDropped"]
             /\ messageBox.resolve = "fetchError" =>
                   \/ batch'.phase \in {"confirming", "summary"}
                   \/ FetchRejectedStep /\ batch' = batch]_vars
    /\ [][batch.phase \in {"confirmDropped", "summaryDropped"} =>
             batch' = batch \/ batch'.phase = "confirming"]_vars
    /\ [](/\ batch.phase = "confirmDropped" => batch.requests = <<>>
          /\ batch.phase = "summaryDropped" => batch.refreshes = 0)
    /\ [][location' # location =>
             messageBox.resolve = "fetchError" /\ Dismissal]_vars

\* the summary of a batch was replaced by a fetch error and the error was
\* dismissed: the page is left and the batch has triggered no refresh
C19_Witness ==
    /\ batch.phase = "summaryDropped"
    /\ batch.refreshes = 0
    /\ location = "/"
    /\ messageBox = NoMessage

---------------------------------------------------------------------------
(* Properties of the recomputation, continued                              *)

\* a filter edit or an update of the user list
Change ==
    \/ \E f \in FilterChoices : setFilter(f)
    \/ refreshAllUsers
    \/ \E data \in UserLists : FetchResolved(data)

\* nothing is left to run and the list displayed is the filter of now
\* applied to the user list of now
Settled ==
    /\ pendingEffects = {}
    /\ timers = {}
    /\ filteredUsers = FilterApply(filter, allUsers)

\* C18: unless filter edits and updates of the user list go on for ever,
\* the view settles for good: no effect and no timer is pending and
\* filteredUsers is the current filter applied to the current user list;
\* and every recomputation is followed by the reset of the page to 0, so
\* that a page other than 0 is one set after the last recomputation
C18_EventuallyConsistent ==
    /\ ([]<><<Change>>_vars) \/ <>[]Settled
    /\ ~h.pageFresh ~> (h.pageFresh /\ pagination.pageIndex = 0)

\* the view has settled, after a burst of changes, on a filter that
\* narrows the user list
C18_Witness ==
    /\ Settled
    /\ h.collapsed
    /\ filter # EmptyFilter
    /\ allUsers # <<>>
    /\ filteredUsers # allUsers
    /\ filteredUsers # <<>>
    /\ pagination.pageIndex = 0
    /\ fetches = 0

====
